---- MODULE Spec2Model ----
(***************************************************************************)
(* Model of segmentation/predict.py: checkpoint resolution, colourization, *)
(* visualization, prediction and evaluation of a segmentation model.       *)
(*                                                                         *)
(* Strings that the code takes apart (file names) are sequences of         *)
(* one-character strings, so that replace/strip/isdigit/int are computed   *)
(* as Python computes them.                                                *)
(***************************************************************************)
EXTENDS Integers, Sequences, FiniteSets, TLC

VARIABLES
    fs,        \* the file names present in the checkpoint directory
    pc,        \* "idle" before a call, "loop" inside evaluate_segmentation's loop, "done" after
    call,      \* the operation called and its arguments
    ret,       \* what the call returned or raised
    events,    \* the side effects of the call, in order (model loading, predict, imwrite)
    tp, fp, fn, n_pixels,   \* evaluate_segmentation's accumulators
    pair_i,    \* index of the (inp, ann) pair the loop is at
    cl_i       \* class index the inner loop is at

vars == <<fs, pc, call, ret, events, tp, fp, fn, n_pixels, pair_i, cl_i>>

Min(a, b) == IF a <= b THEN a ELSE b
Max(a, b) == IF a >= b THEN a ELSE b

(***************************************************************************)
(* Python string operations on sequences of characters.                    *)
(***************************************************************************)
Digits == {"0", "1", "2", "3", "4", "5", "6", "7", "8", "9"}

DigitVal(ch) ==
    CASE ch = "0" -> 0 [] ch = "1" -> 1 [] ch = "2" -> 2 [] ch = "3" -> 3
      [] ch = "4" -> 4 [] ch = "5" -> 5 [] ch = "6" -> 6 [] ch = "7" -> 7
      [] ch = "8" -> 8 [] ch = "9" -> 9

StartsWith(s, p) ==
    /\ Len(p) <= Len(s)
    /\ SubSeq(s, 1, Len(p)) = p

EndsWith(s, p) ==
    /\ Len(p) <= Len(s)
    /\ SubSeq(s, Len(s) - Len(p) + 1, Len(s)) = p

\* str.replace(old, new) for a non-empty old: every non-overlapping occurrence,
\* scanning from the left.
RECURSIVE StrReplace(_, _, _)
StrReplace(s, old, new) ==
    IF Len(s) < Len(old) THEN s
    ELSE IF StartsWith(s, old)
         THEN new \o StrReplace(SubSeq(s, Len(old) + 1, Len(s)), old, new)
         ELSE <<Head(s)>> \o StrReplace(Tail(s), old, new)

RECURSIVE LStrip(_, _)
LStrip(s, ch) ==
    IF s # <<>> /\ Head(s) = ch THEN LStrip(Tail(s), ch) ELSE s

RECURSIVE RStrip(_, _)
RStrip(s, ch) ==
    IF s # <<>> /\ s[Len(s)] = ch THEN RStrip(SubSeq(s, 1, Len(s) - 1), ch) ELSE s

\* str.strip(ch): leading and trailing occurrences of ch removed.
StrStrip(s, ch) == RStrip(LStrip(s, ch), ch)

\* str.isdigit() on ASCII text: non-empty and every character a digit.
IsDigit(s) ==
    /\ s # <<>>
    /\ \A k \in 1..Len(s) : s[k] \in Digits

\* int(s) for a string of decimal digits.
RECURSIVE StrToInt(_)
StrToInt(s) ==
    IF s = <<>> THEN 0
    ELSE 10 * StrToInt(SubSeq(s, 1, Len(s) - 1)) + DigitVal(s[Len(s)])

\* os.path.normpath on a name without a path separator: a single component
\* is left as it is, the empty path becomes ".".
NormPath(p) == IF p = <<>> THEN <<".">> ELSE p

(***************************************************************************)
(* The checkpoint directory.                                               *)
(***************************************************************************)
MaxBodyLen == 3
MaxFiles == 2

\* checkpoints_path, as the caller passes it.
Path == <<"c">>

IndexSuffix == <<".", "i", "n", "d", "e", "x">>
ConfigSuffix == <<"_", "c", "o", "n", "f", "i", "g", ".", "j", "s", "o", "n">>

\* The characters a file name continues with after checkpoints_path: the
\* separator, two digits, the path's own character and another letter.
Alphabet == {".", "1", "5", "c", "b"}

RECURSIVE SeqsUpTo(_, _)
SeqsUpTo(S, n) ==
    IF n = 0 THEN {<<>>}
    ELSE LET shorter == SeqsUpTo(S, n - 1)
         IN  shorter \cup {<<x>> \o s : x \in S, s \in {t \in shorter : Len(t) = n - 1}}

Bodies == SeqsUpTo(Alphabet, MaxBodyLen) \ {<<>>}

\* Names a file beginning with checkpoints_path can have in the model, with
\* or without the ".index" ending of a TensorFlow checkpoint.
FileNames == {Path \o b : b \in Bodies} \cup {Path \o b \o IndexSuffix : b \in Bodies}

\* glob.glob(pattern) for the two patterns of find_latest_checkpoint; the
\* order of the list glob returns is arbitrary, so the result is a set.
GlobDotStar(files, path) == {f \in files : StartsWith(f, path \o <<".">>)}

GlobStarDotStar(files, path) ==
    {f \in files : /\ StartsWith(f, path)
                   /\ \E k \in (Len(path) + 1)..Len(f) : f[k] = "."}

get_epoch_number_from_path(path, checkpoints_path) ==
    StrStrip(StrReplace(path, NormPath(checkpoints_path), <<>>), ".")

\* The entries find_latest_checkpoint keeps: the globbed ones, normalized,
\* ".index" replaced away, filtered on isdigit().
all_checkpoint_files(files, checkpoints_path) ==
    LET globbed == IF GlobDotStar(files, checkpoints_path) = {}
                   THEN GlobStarDotStar(files, checkpoints_path)
                   ELSE GlobDotStar(files, checkpoints_path)
        replaced == {StrReplace(NormPath(f), IndexSuffix, <<>>) : f \in globbed}
    IN  {f \in replaced : IsDigit(get_epoch_number_from_path(f, checkpoints_path))}

epoch_key(f, checkpoints_path) == StrToInt(get_epoch_number_from_path(f, checkpoints_path))

\* max(all_checkpoint_files, key=...): an entry of maximal key; which one of
\* several entries with the same key depends on the order glob listed them in.
latest_epoch_checkpoints(files, checkpoints_path) ==
    LET kept == all_checkpoint_files(files, checkpoints_path)
    IN  {f \in kept : \A g \in kept : epoch_key(g, checkpoints_path) <= epoch_key(f, checkpoints_path)}

\* The possible outcomes of find_latest_checkpoint(checkpoints_path, fail_safe).
find_latest_checkpoint(files, checkpoints_path, fail_safe) ==
    IF all_checkpoint_files(files, checkpoints_path) = {}
    THEN IF ~fail_safe
         THEN {[outcome |-> "raise", error |-> "ValueError", value |-> <<>>]}
         ELSE {[outcome |-> "none", error |-> "", value |-> <<>>]}
    ELSE {[outcome |-> "value", error |-> "", value |-> f] :
             f \in latest_epoch_checkpoints(files, checkpoints_path)}

ConfigPath(checkpoints_path) == checkpoints_path \o ConfigSuffix

\* The possible outcomes of model_from_checkpoint_path with the effects it
\* had: the model is constructed and its weights loaded only after both
\* assertions passed.
model_from_checkpoint_path(files, checkpoints_path) ==
    IF ConfigPath(checkpoints_path) \notin files
    THEN {[outcome |-> "raise", error |-> "Checkpoint config isn't found",
           value |-> <<>>, effects |-> <<>>]}
    ELSE {IF r.outcome = "none"
          THEN [outcome |-> "raise", error |-> "Checkpoint weights aren't found",
                value |-> <<>>, effects |-> <<>>]
          ELSE [outcome |-> "value", error |-> "", value |-> r.value,
                effects |-> <<[e |-> "model_from_name"],
                              [e |-> "load_weights", weights |-> r.value]>>] :
             r \in find_latest_checkpoint(files, checkpoints_path, TRUE)}

NoCall == [op |-> "none"]
NoRet == [outcome |-> "pending", error |-> "", value |-> <<>>]

EvalIdle ==
    /\ tp = <<>> /\ fp = <<>> /\ fn = <<>> /\ n_pixels = <<>>
    /\ pair_i = 0 /\ cl_i = 0

InitCkpt ==
    /\ fs = {}
    /\ pc = "idle"
    /\ call = NoCall
    /\ ret = NoRet
    /\ events = <<>>
    /\ EvalIdle

\* A checkpoint file appears in the directory.
CreateFile ==
    /\ pc = "idle"
    /\ Cardinality(fs \ {ConfigPath(Path)}) < MaxFiles
    /\ \E f \in FileNames \ fs : fs' = fs \cup {f}
    /\ UNCHANGED <<pc, call, ret, events, tp, fp, fn, n_pixels, pair_i, cl_i>>

\* The configuration sidecar <checkpoints_path>_config.json appears.
CreateConfig ==
    /\ pc = "idle"
    /\ ConfigPath(Path) \notin fs
    /\ fs' = fs \cup {ConfigPath(Path)}
    /\ UNCHANGED <<pc, call, ret, events, tp, fp, fn, n_pixels, pair_i, cl_i>>

FindLatestCheckpoint ==
    /\ pc = "idle"
    /\ \E fail_safe \in BOOLEAN :
         /\ call' = [op |-> "find_latest_checkpoint", fail_safe |-> fail_safe]
         /\ ret' \in find_latest_checkpoint(fs, Path, fail_safe)
    /\ pc' = "done"
    /\ UNCHANGED <<fs, events, tp, fp, fn, n_pixels, pair_i, cl_i>>

ModelFromCheckpointPath ==
    /\ pc = "idle"
    /\ call' = [op |-> "model_from_checkpoint_path"]
    /\ \E r \in model_from_checkpoint_path(fs, Path) :
         /\ ret' = [outcome |-> r.outcome, error |-> r.error, value |-> r.value]
         /\ events' = r.effects
    /\ pc' = "done"
    /\ UNCHANGED <<fs, tp, fp, fn, n_pixels, pair_i, cl_i>>

NextCkpt ==
    \/ CreateFile
    \/ CreateConfig
    \/ FindLatestCheckpoint
    \/ ModelFromCheckpointPath

SpecCkpt == InitCkpt /\ [][NextCkpt]_vars

(***************************************************************************)
(* Images.  An array of shape (h, w) is a sequence of h rows of w entries: *)
(* a class index per entry for a segmentation map, a triple of channel     *)
(* values for a colour image.  An optional argument is a record: some      *)
(* tells whether it was given (is not None), v is its value.               *)
(***************************************************************************)
SomeV(v) == [some |-> TRUE, v |-> v]
NoInt == [some |-> FALSE, v |-> 0]
NoSeq == [some |-> FALSE, v |-> <<>>]
NoStr == [some |-> FALSE, v |-> ""]

Height(arr) == Len(arr)
Width(arr) == Len(arr[1])

\* The array of shape (h, w) whose entry at row y, column x (from 1) is
\* f[y, x], as a sequence of sequences.
Grid(h, w, f) ==
    [y \in 1..h |-> [x \in 1..w |-> f[y, x]] \o <<>>] \o <<>>

\* np.max(seg_arr)
RECURSIVE SeqMax(_)
SeqMax(s) == IF Len(s) = 1 THEN s[1] ELSE Max(s[1], SeqMax(Tail(s)))

ArrMax(arr) == SeqMax([y \in 1..Height(arr) |-> SeqMax(arr[y])])

\* x.astype("uint8") of an integer
Uint8(x) == x % 256

\* Mutant of AddClassColor: the mask compares with >= instead of ==.
AddClassColorGeq(seg_img, seg_arr, c, colors) ==
    LET Channel(y, x, k) ==
            seg_img[y][x][k]
              + Uint8((IF seg_arr[y][x] >= c THEN 1 ELSE 0) * colors[c + 1][k])
    IN  Grid(Height(seg_arr), Width(seg_arr),
             [y \in 1..Height(seg_arr), x \in 1..Width(seg_arr) |->
                 <<Channel(y, x, 1), Channel(y, x, 2), Channel(y, x, 3)>>])

\* One pass of the loop of get_colored_segmentation_image: the mask of class
\* c times the colour of c, cast to uint8, added to each channel.
AddClassColor(seg_img, seg_arr, c, colors) ==
    LET Channel(y, x, k) ==
            seg_img[y][x][k]
              + Uint8((IF seg_arr[y][x] = c THEN 1 ELSE 0) * colors[c + 1][k])
    IN  Grid(Height(seg_arr), Width(seg_arr),
             [y \in 1..Height(seg_arr), x \in 1..Width(seg_arr) |->
                 <<Channel(y, x, 1), Channel(y, x, 2), Channel(y, x, 3)>>])

RECURSIVE ColorLoop(_, _, _, _, _)
ColorLoop(seg_img, seg_arr, c, n_classes, colors) ==
    IF c >= n_classes THEN seg_img
    ELSE ColorLoop(AddClassColor(seg_img, seg_arr, c, colors), seg_arr, c + 1, n_classes, colors)

get_colored_segmentation_image(seg_arr, n_classes, colors) ==
    LET zeros == Grid(Height(seg_arr), Width(seg_arr),
                      [y \in 1..Height(seg_arr), x \in 1..Width(seg_arr) |-> <<0, 0, 0>>])
    IN  ColorLoop(zeros, seg_arr, 0, n_classes, colors)

\* cv2.resize(img, (w, h), interpolation=cv2.INTER_NEAREST): the destination
\* pixel (x, y) is the source pixel (floor(x * sw / w), floor(y * sh / h)),
\* counting from 0.
ResizeNearest(img, w, h) ==
    Grid(h, w, [y \in 1..h, x \in 1..w |->
            img[Min(((y - 1) * Height(img)) \div h, Height(img) - 1) + 1]
               [Min(((x - 1) * Width(img)) \div w, Width(img) - 1) + 1]])

\* cv2.resize(img, (w, h)) with the default bilinear interpolation, on the
\* source images of the model, which are of a single colour: every
\* interpolated pixel is that colour.
ResizeLinear(img, w, h) == Grid(h, w, [y \in 1..h, x \in 1..w |-> img[1][1]])

\* (inp_img / 2 + seg_img / 2).astype("uint8")
Blend(a, b) == Uint8((a + b) \div 2)

overlay_seg_image(inp_img, seg_img) ==
    LET orininal_h == Height(inp_img)
        orininal_w == Width(inp_img)
        resized == ResizeNearest(seg_img, orininal_w, orininal_h)
    IN  Grid(orininal_h, orininal_w, [y \in 1..orininal_h, x \in 1..orininal_w |->
                <<Blend(inp_img[y][x][1], resized[y][x][1]),
                  Blend(inp_img[y][x][2], resized[y][x][2]),
                  Blend(inp_img[y][x][3], resized[y][x][3])>>])

\* The legend strip, kept as what is drawn on it rather than as pixels: its
\* shape and, per class, the name written and the colour and place of the
\* swatch.  zip stops at the shorter of class_names and colors.
get_legends(class_names, colors) ==
    LET n_classes == Len(class_names)
    IN  [shape |-> <<(n_classes * 25) + 25, 125>>,
         rows |-> [i \in 1..Min(n_classes, Len(colors)) |->
                     [text |-> class_names[i],
                      text_at |-> <<0, ((i - 1) * 25) + 17>>,
                      swatch_from |-> <<110, (i - 1) * 25>>,
                      swatch_to |-> <<135, ((i - 1) * 25) + 25>>,
                      color |-> colors[i]]]]

NoLegend == [shape |-> <<0, 0>>, rows |-> <<>>]

\* An image visualize_segmentation returns: the segmentation pixels, and
\* the legend strip when one was put beside them.
PlainImage(seg_img) ==
    [shape |-> <<Height(seg_img), Width(seg_img)>>,
     px |-> seg_img,
     px_at |-> <<0, 0>>,
     legend |-> NoLegend]

\* The value slot of a call that raised.
NoImage == [shape |-> <<0, 0>>, px |-> <<>>, px_at |-> <<0, 0>>, legend |-> NoLegend]

\* concat_legends: the legend at the top left, the segmentation image to the
\* right of it, on a canvas as high as the higher of the two.
concat_legends(seg_img, legend_img) ==
    [shape |-> <<Max(Height(seg_img), legend_img.shape[1]),
                 Width(seg_img) + legend_img.shape[2]>>,
     px |-> seg_img,
     px_at |-> <<0, legend_img.shape[2]>>,
     legend |-> legend_img]

\* Mutant of DefaultNClasses: the default counts the classes 0..max.
DefaultNClassesPlusOne(seg_arr, n_classes) ==
    IF ~n_classes.some THEN ArrMax(seg_arr) + 1 ELSE n_classes.v

\* Lines 141-142: n_classes defaults to the largest label of the map.
DefaultNClasses(seg_arr, n_classes) ==
    IF ~n_classes.some THEN ArrMax(seg_arr) ELSE n_classes.v

\* Lines 146-151: the colourized map takes the size of the source image.
ResizeToSource(seg_img, inp_img) ==
    IF inp_img.some
    THEN ResizeNearest(seg_img, Width(inp_img.v), Height(inp_img.v))
    ELSE seg_img

BothGiven(prediction_width, prediction_height) ==
    prediction_height.some /\ prediction_width.some

\* Lines 153-158
ResizeToPrediction(seg_img, prediction_width, prediction_height) ==
    IF BothGiven(prediction_width, prediction_height)
    THEN ResizeNearest(seg_img, prediction_width.v, prediction_height.v)
    ELSE seg_img

\* Lines 153, 159-160
ResizeSource(inp_img, prediction_width, prediction_height) ==
    IF BothGiven(prediction_width, prediction_height) /\ inp_img.some
    THEN SomeV(ResizeLinear(inp_img.v, prediction_width.v, prediction_height.v))
    ELSE inp_img

OverlayAssert == "assert inp_img is not None"
LegendAssert == "assert class_names is not None"

\* Lines 162-164: the error the overlay step raises ("" when it raises none).
OverlayError(inp_img, overlay_img) ==
    IF overlay_img /\ ~inp_img.some THEN OverlayAssert ELSE ""

\* Mutant of LegendError: the assertion on class_names is missing.
LegendErrorUnchecked(class_names, show_legends) == ""

\* Lines 166-167
LegendError(class_names, show_legends) ==
    IF show_legends /\ ~class_names.some THEN LegendAssert ELSE ""

\* Lines 162-172: overlay, then the legend, each behind its assertion.
Compose(seg_img, inp_img, colors, class_names, overlay_img, show_legends) ==
    IF OverlayError(inp_img, overlay_img) # ""
    THEN [outcome |-> "raise", error |-> OverlayError(inp_img, overlay_img),
          value |-> NoImage]
    ELSE LET fused == IF overlay_img THEN overlay_seg_image(inp_img.v, seg_img) ELSE seg_img
         IN  IF LegendError(class_names, show_legends) # ""
             THEN [outcome |-> "raise", error |-> LegendError(class_names, show_legends),
                   value |-> NoImage]
             ELSE [outcome |-> "value", error |-> "",
                   value |-> IF show_legends
                             THEN concat_legends(fused, get_legends(class_names.v, colors))
                             ELSE PlainImage(fused)]

visualize_segmentation(seg_arr, inp_img, n_classes, colors, class_names, overlay_img, show_legends, prediction_width, prediction_height) ==
    LET n == DefaultNClasses(seg_arr, n_classes)
        colored == get_colored_segmentation_image(seg_arr, n, colors)
        at_source == ResizeToSource(colored, inp_img)
        seg_img == ResizeToPrediction(at_source, prediction_width, prediction_height)
        source == ResizeSource(inp_img, prediction_width, prediction_height)
    IN  Compose(seg_img, source, colors, class_names, overlay_img, show_legends)

(***************************************************************************)
(* Inputs of the visualization calls.                                      *)
(***************************************************************************)
MaxLabel == 2

Labels == 0..MaxLabel

SegShapes == {<<1, 1>>, <<1, 2>>, <<2, 2>>}

SegArrs == UNION {[1..s[1] -> [1..s[2] -> Labels]] : s \in SegShapes}

\* Palettes of MaxLabel + 2 colours: the one of the colourization example,
\* continued, and one with the extreme channel values.
ExamplePalette == [c \in 1..(MaxLabel + 2) |-> <<(30 * c) - 20, 30 * c - 10, 30 * c>>]
EdgePalette == [c \in 1..(MaxLabel + 2) |-> <<255, c - 1, 256 - c>>]
Palettes == {ExamplePalette, EdgePalette}

UniformImage(h, w, v) == Grid(h, w, [y \in 1..h, x \in 1..w |-> <<v, v, v>>])

SourceImages == {UniformImage(1, 1, 100), UniformImage(2, 3, 101)}

ClassNames == {<<"text", "table">>}

\* (prediction_width, prediction_height) as callers pass them
PredictionSizes == {<<NoInt, NoInt>>, <<SomeV(3), NoInt>>, <<SomeV(3), SomeV(1)>>}

InitViz ==
    /\ fs = {}
    /\ pc = "idle"
    /\ call = NoCall
    /\ ret = NoRet
    /\ events = <<>>
    /\ EvalIdle

GetColoredSegmentationImage ==
    /\ pc = "idle"
    /\ \E seg_arr \in SegArrs, n_classes \in 0..(MaxLabel + 1), colors \in Palettes :
         /\ call' = [op |-> "get_colored_segmentation_image", seg_arr |-> seg_arr,
                     n_classes |-> n_classes, colors |-> colors]
         /\ ret' = [outcome |-> "value", error |-> "",
                    value |-> get_colored_segmentation_image(seg_arr, n_classes, colors)]
    /\ pc' = "done"
    /\ UNCHANGED <<fs, events, tp, fp, fn, n_pixels, pair_i, cl_i>>

VisualizeSegmentation ==
    /\ pc = "idle"
    /\ \E seg_arr \in SegArrs,
          inp_img \in {NoSeq} \cup {SomeV(i) : i \in SourceImages},
          n_classes \in {NoInt} \cup {SomeV(n) : n \in 0..(MaxLabel + 1)},
          colors \in Palettes,
          class_names \in {NoSeq} \cup {SomeV(c) : c \in ClassNames},
          overlay_img \in BOOLEAN, show_legends \in BOOLEAN,
          size \in PredictionSizes :
         /\ call' = [op |-> "visualize_segmentation", seg_arr |-> seg_arr,
                     inp_img |-> inp_img, n_classes |-> n_classes, colors |-> colors,
                     class_names |-> class_names, overlay_img |-> overlay_img,
                     show_legends |-> show_legends,
                     prediction_width |-> size[1], prediction_height |-> size[2]]
         /\ ret' = visualize_segmentation(seg_arr, inp_img, n_classes, colors, class_names,
                                          overlay_img, show_legends, size[1], size[2])
    /\ pc' = "done"
    /\ UNCHANGED <<fs, events, tp, fp, fn, n_pixels, pair_i, cl_i>>

NextViz ==
    \/ GetColoredSegmentationImage
    \/ VisualizeSegmentation

SpecViz == InitViz /\ [][NextViz]_vars

(***************************************************************************)
(* Prediction.                                                             *)
(***************************************************************************)
\* Mutant of ArgMax: the index of the last largest entry.
ArgMaxLast(scores) ==
    (CHOOSE k \in 1..Len(scores) :
        /\ \A j \in 1..Len(scores) : scores[j] <= scores[k]
        /\ \A j \in (k + 1)..Len(scores) : scores[j] < scores[k]) - 1

\* The index of the first largest entry of a non-empty sequence, from 0, as
\* numpy's argmax returns it.
ArgMax(scores) ==
    (CHOOSE k \in 1..Len(scores) :
        /\ \A j \in 1..Len(scores) : scores[j] <= scores[k]
        /\ \A j \in 1..(k - 1) : scores[j] < scores[k]) - 1

\* pr.reshape((output_height, output_width, n_classes)).argmax(axis=2) of
\* the flat output of model.predict, in row-major order.
ReshapeArgMax(raw, output_height, output_width, n_classes) ==
    Grid(output_height, output_width, [y \in 1..output_height, x \in 1..output_width |->
            ArgMax([k \in 1..n_classes |->
                       raw[(((y - 1) * output_width) + (x - 1)) * n_classes + k]])])

Raise(error, effects) ==
    [outcome |-> "raise", error |-> error, value |-> <<>>, effects |-> effects]

ImWrite(name, img) == [e |-> "imwrite", name |-> name, img |-> img]

\* Mutant of WriteAll: the overlay and the legend variants change places.
WriteAllSwapped(pr, out_fnames, imgs, effects) ==
    IF ~out_fnames.some
    THEN [outcome |-> "value", error |-> "", value |-> pr, effects |-> effects]
    ELSE LET n == Min(Len(out_fnames.v), 4)
             swapped == <<imgs[1], imgs[3], imgs[2], imgs[4]>>
             written == [k \in 1..n |-> ImWrite(out_fnames.v[k], swapped[k])]
         IN  IF n < 4
             THEN Raise("IndexError", effects \o written)
             ELSE [outcome |-> "value", error |-> "", value |-> pr,
                   effects |-> effects \o written]

\* Lines 259-263: cv2.imwrite(out_fnames[k], imgs[k]) for k = 0..3, ended
\* by an IndexError where the list runs out.
WriteAll(pr, out_fnames, imgs, effects) ==
    IF ~out_fnames.some
    THEN [outcome |-> "value", error |-> "", value |-> pr, effects |-> effects]
    ELSE LET n == Min(Len(out_fnames.v), 4)
             written == [k \in 1..n |-> ImWrite(out_fnames.v[k], imgs[k])]
         IN  IF n < 4
             THEN Raise("IndexError", effects \o written)
             ELSE [outcome |-> "value", error |-> "", value |-> pr,
                   effects |-> effects \o written]

\* Lines 214-279: the visualizations of the class map pr and the writes.
VisualizeAndWrite(pr, inp_img, n_classes, o, effects) ==
    LET Vis(overlay_img, show_legends) ==
            visualize_segmentation(pr, SomeV(inp_img), SomeV(n_classes), o.colors,
                                   o.class_names, overlay_img, show_legends,
                                   o.prediction_size[1], o.prediction_size[2])
    IN  IF o.all_visualisations
        THEN LET overlay_and_legends == Vis(TRUE, TRUE)
                 overlay == Vis(TRUE, FALSE)
                 legends == Vis(FALSE, TRUE)
                 plain == Vis(FALSE, FALSE)
             IN  IF overlay_and_legends.outcome = "raise"
                 THEN Raise(overlay_and_legends.error, effects)
                 ELSE IF overlay.outcome = "raise" THEN Raise(overlay.error, effects)
                 ELSE IF legends.outcome = "raise" THEN Raise(legends.error, effects)
                 ELSE IF plain.outcome = "raise" THEN Raise(plain.error, effects)
                 ELSE WriteAll(pr, o.out_fnames,
                               <<overlay_and_legends.value, overlay.value,
                                 legends.value, plain.value>>, effects)
        ELSE LET seg_img == Vis(o.overlay_img, o.show_legends)
             IN  IF seg_img.outcome = "raise" THEN Raise(seg_img.error, effects)
                 ELSE [outcome |-> "value", error |-> "", value |-> pr,
                       effects |-> IF o.out_fname.some
                                   THEN effects \o <<ImWrite(o.out_fname.v, seg_img.value)>>
                                   ELSE effects]

\* Lines 192-202: the error the validation of inp raises ("" when none).
\* cv2.imread gives None for a file it cannot decode, and None has no shape.
InputError(inp) ==
    IF inp.kind = "None" THEN "assert inp is not None"
    ELSE IF inp.kind \notin {"ndarray", "str"}
         THEN "Input should be the CV image or the input file name"
    ELSE IF inp.kind = "str" /\ ~inp.readable THEN "AttributeError"
    ELSE IF inp.rank \notin {1, 3, 4} THEN "Image should be h,w,3 "
    ELSE ""

\* Lines 192-279, with the model predict_segmentation works with (absent
\* when neither a model nor a checkpoint was given) and the effects so far.
PredictWithModel(model, inp, raw, o, effects) ==
    IF InputError(inp) # "" THEN Raise(InputError(inp), effects)
    ELSE IF ~model.some THEN Raise("AttributeError", effects)
    ELSE LET pr == ReshapeArgMax(raw, model.v.output_height, model.v.output_width,
                                 model.v.n_classes)
         IN  VisualizeAndWrite(pr, inp.img, model.v.n_classes, o,
                               effects \o <<[e |-> "predict"]>>)

\* The possible outcomes of predict_segmentation.  loaded is the model the
\* checkpoint's configuration describes; raw is what model.predict returns
\* for the image.
predict_segmentation(files, model, loaded, inp, raw, checkpoints_path, o) ==
    IF ~model.some /\ checkpoints_path.some
    THEN {IF m.outcome = "raise"
          THEN Raise(m.error, m.effects)
          ELSE PredictWithModel(SomeV(loaded), inp, raw, o, m.effects) :
             m \in model_from_checkpoint_path(files, checkpoints_path.v)}
    ELSE {PredictWithModel(model, inp, raw, o, <<>>)}

(***************************************************************************)
(* Inputs of the prediction calls.                                         *)
(***************************************************************************)
\* The attributes of the model object: a 1 x 2 output map of 2 classes.
TheModel ==
    [input_width |-> 4, input_height |-> 2,
     output_width |-> 2, output_height |-> 1, n_classes |-> 2]

NoModel ==
    [some |-> FALSE,
     v |-> [input_width |-> 0, input_height |-> 0,
            output_width |-> 0, output_height |-> 0, n_classes |-> 0]]

\* The class scores model.predict can return for one pixel (class 1 ahead,
\* class 0 ahead, a tie) and, flattened pixel after pixel, for an image.
PixelScores == {<<0, 1>>, <<1, 0>>, <<1, 1>>}
RawOutputs == {p \o q : p \in PixelScores, q \in PixelScores}

Inp(kind, rank, readable, img) ==
    [kind |-> kind, rank |-> rank, readable |-> readable, img |-> img]

\* inp: None, a value of another type, arrays of rank 2 and 3, the name of
\* an image file and the name of a file that does not decode.
ValidInputs ==
    {Inp("ndarray", 3, TRUE, UniformImage(1, 2, 101)),
     Inp("str", 3, TRUE, UniformImage(1, 1, 100))}
InvalidInputs ==
    {Inp("None", 0, FALSE, <<>>), Inp("int", 0, FALSE, <<>>),
     Inp("ndarray", 2, TRUE, <<>>), Inp("str", 0, FALSE, <<>>)}

\* model.predict is reached with a valid input only: one output stands for
\* all of them with an input the validation rejects.
RawFor(inp) == IF inp \in ValidInputs THEN RawOutputs ELSE {<<0, 1, 1, 0>>}

OutFnames == {<<"f0", "f1", "f2">>, <<"f0", "f1", "f2", "f3">>}

WeightsFile == Path \o <<".", "5">>
CheckpointDirs == {{}, {ConfigPath(Path), WeightsFile}}

Options ==
    [out_fname : {NoStr, SomeV("out")},
     overlay_img : BOOLEAN,
     class_names : {NoSeq} \cup {SomeV(c) : c \in ClassNames},
     show_legends : BOOLEAN,
     colors : {ExamplePalette},
     prediction_size : PredictionSizes,
     all_visualisations : BOOLEAN,
     out_fnames : {NoSeq} \cup {SomeV(f) : f \in OutFnames}]

InitPredict ==
    /\ fs \in CheckpointDirs
    /\ pc = "idle"
    /\ call = NoCall
    /\ ret = NoRet
    /\ events = <<>>
    /\ EvalIdle

PredictSegmentation ==
    /\ pc = "idle"
    /\ \E model \in {NoModel, SomeV(TheModel)},
          checkpoints_path \in {NoSeq, SomeV(Path)},
          inp \in ValidInputs \cup InvalidInputs :
       \E raw \in RawFor(inp), o \in Options :
         /\ call' = [op |-> "predict_segmentation", model |-> model,
                     checkpoints_path |-> checkpoints_path, inp |-> inp,
                     raw |-> raw, o |-> o]
         /\ \E r \in predict_segmentation(fs, model, TheModel, inp, raw, checkpoints_path, o) :
              /\ ret' = [outcome |-> r.outcome, error |-> r.error, value |-> r.value]
              /\ events' = r.effects
    /\ pc' = "done"
    /\ UNCHANGED <<fs, tp, fp, fn, n_pixels, pair_i, cl_i>>

NextPredict == PredictSegmentation

SpecPredict == InitPredict /\ [][NextPredict]_vars

(***************************************************************************)
(* Evaluation.                                                             *)
(***************************************************************************)
MaxPairs == 2

\* arr.flatten(): the rows one after the other.
RECURSIVE Flatten(_)
Flatten(arr) == IF arr = <<>> THEN <<>> ELSE Head(arr) \o Flatten(Tail(arr))

\* np.sum(mask) of a boolean mask over the flattened maps, given as the
\* function from pixel index to truth value.
MaskSum(mask) == Cardinality({j \in DOMAIN mask : mask[j]})

\* Lines 329-332: what one image adds to the counters of class cl.
tp_add(pr, gt, cl) == MaskSum([j \in 1..Len(pr) |-> pr[j] = cl /\ gt[j] = cl])
fp_add(pr, gt, cl) == MaskSum([j \in 1..Len(pr) |-> pr[j] = cl /\ gt[j] # cl])

\* Mutant of fn_add: the mask of the prediction is not negated.
fn_add_not_negated(pr, gt, cl) == MaskSum([j \in 1..Len(pr) |-> pr[j] = cl /\ gt[j] = cl])

fn_add(pr, gt, cl) == MaskSum([j \in 1..Len(pr) |-> pr[j] # cl /\ gt[j] = cl])
n_pixels_add(pr, gt, cl) == MaskSum([j \in 1..Len(pr) |-> gt[j] = cl])

\* Mutant of Accumulate: the counter is assigned, not added to.
AccumulateAssigned(acc, cl, d) == [acc EXCEPT ![cl + 1] = d]

\* acc[cl] += d
Accumulate(acc, cl, d) == [acc EXCEPT ![cl + 1] = @ + d]

\* np.zeros(n)
Zeros(n) == [c \in 1..n |-> 0]

\* gt.argmax(-1)
ArgMaxLastAxis(arr) ==
    Grid(Height(arr), Width(arr),
         [y \in 1..Height(arr), x \in 1..Width(arr) |-> ArgMax(arr[y][x])])

\* The options of predict_segmentation(model, inp): the defaults.
DefaultOptions ==
    [out_fname |-> NoStr, overlay_img |-> FALSE, class_names |-> NoSeq,
     show_legends |-> FALSE, colors |-> ExamplePalette,
     prediction_size |-> <<NoInt, NoInt>>,
     all_visualisations |-> FALSE, out_fnames |-> NoSeq]

\* An input image of the evaluation with what model.predict returns for it.
EvalImage(raw) == [inp |-> Inp("ndarray", 3, TRUE, UniformImage(1, 1, 100)), raw |-> raw]

EvalImages == {EvalImage(p \o q) : p \in {<<0, 1>>, <<1, 0>>}, q \in {<<0, 1>>, <<1, 0>>}}

\* An annotation, as the array get_segmentation_array returns for it: per
\* output pixel of TheModel one channel per class, 1 in the channel of the
\* pixel's class.
OneHot == {<<1, 0>>, <<0, 1>>}
Annotations == [1..TheModel.output_height -> [1..TheModel.output_width -> OneHot]]

\* What get_pairs_from_paths finds in a pair of directories.
DirListings ==
    {<<>>,
     <<<<EvalImage(<<0, 1, 1, 0>>), <<<<(<<0, 1>>), (<<0, 1>>)>>>> >>>>,
     <<<<EvalImage(<<0, 1, 1, 0>>), <<<<(<<0, 1>>), (<<0, 1>>)>>>> >>,
       <<EvalImage(<<1, 0, 1, 0>>), <<<<(<<1, 0>>), (<<0, 1>>)>>>> >>>>}

\* Lines 290-308: the model and the two lists evaluate_segmentation works
\* with, or the error it raises before the loop.
EvaluateArguments(files, a) ==
    LET loads == IF ~a.model.some /\ a.checkpoints_path.some
                 THEN model_from_checkpoint_path(files, a.checkpoints_path.v)
                 ELSE {[outcome |-> "value", error |-> "", value |-> <<>>, effects |-> <<>>]}
        Lists(m) ==
            IF ~a.inp_images.some
            THEN IF ~a.inp_images_dir.some \/ ~a.annotations_dir.some
                 THEN Raise("Please provide inp_images or inp_images_dir", m.effects)
                 ELSE IF a.listing = <<>>
                      THEN Raise("IndexError", m.effects)
                      ELSE [outcome |-> "value", error |-> "", effects |-> m.effects,
                            value |-> [inp_images |-> [i \in 1..Len(a.listing) |-> a.listing[i][1]],
                                       annotations |-> [i \in 1..Len(a.listing) |-> a.listing[i][2]]]]
            ELSE IF ~a.annotations.some
                 THEN Raise("AssertionError", m.effects)
                 ELSE [outcome |-> "value", error |-> "", effects |-> m.effects,
                       value |-> [inp_images |-> a.inp_images.v,
                                  annotations |-> a.annotations.v]]
    IN  IF ~a.model.some /\ ~a.checkpoints_path.some
        THEN {Raise("Please provide the model or the checkpoints_path", <<>>)}
        ELSE {IF m.outcome = "raise" THEN Raise(m.error, m.effects) ELSE Lists(m) : m \in loads}

ListsUpTo(S, n) == UNION {[1..k -> S] : k \in 0..n}

EvalArguments ==
    [model : {NoModel, SomeV(TheModel)},
     checkpoints_path : {NoSeq, SomeV(Path)},
     inp_images : {SomeV(l) : l \in ListsUpTo(EvalImages, MaxPairs)},
     annotations : {NoSeq} \cup {SomeV(l) : l \in ListsUpTo(Annotations, MaxPairs)},
     inp_images_dir : {NoStr},
     annotations_dir : {NoStr},
     listing : {<<>>}]
    \cup
    [model : {NoModel, SomeV(TheModel)},
     checkpoints_path : {NoSeq, SomeV(Path)},
     inp_images : {NoSeq},
     annotations : {NoSeq},
     inp_images_dir : {NoStr, SomeV("images")},
     annotations_dir : {NoStr, SomeV("annotations")},
     listing : DirListings]

InitEval ==
    /\ fs = {ConfigPath(Path), WeightsFile}
    /\ pc = "idle"
    /\ call = NoCall
    /\ ret = NoRet
    /\ events = <<>>
    /\ EvalIdle

\* Lines 290-313: the arguments are resolved and the accumulators zeroed.
EvaluateSegmentation ==
    /\ pc = "idle"
    /\ \E a \in EvalArguments : \E r \in EvaluateArguments(fs, a) :
         /\ events' = r.effects
         /\ IF r.outcome = "raise"
            THEN /\ call' = [op |-> "evaluate_segmentation", args |-> a,
                             inp_images |-> <<>>, annotations |-> <<>>, n_classes |-> 0]
                 /\ ret' = [outcome |-> "raise", error |-> r.error, value |-> <<>>]
                 /\ pc' = "done"
                 /\ UNCHANGED <<tp, fp, fn, n_pixels>>
            ELSE /\ call' = [op |-> "evaluate_segmentation", args |-> a,
                             inp_images |-> r.value.inp_images,
                             annotations |-> r.value.annotations,
                             n_classes |-> TheModel.n_classes]
                 /\ ret' = NoRet
                 /\ pc' = "pair"
                 /\ tp' = Zeros(TheModel.n_classes)
                 /\ fp' = Zeros(TheModel.n_classes)
                 /\ fn' = Zeros(TheModel.n_classes)
                 /\ n_pixels' = Zeros(TheModel.n_classes)
    /\ UNCHANGED <<fs, pair_i, cl_i>>

\* zip(inp_images, annotations) ends with the shorter list.
NumPairs == Min(Len(call.inp_images), Len(call.annotations))

\* Line 316: the outcome of predict_segmentation(model, inp) for pair i.
PairPrediction(i) ==
    PredictWithModel(SomeV(TheModel), call.inp_images[i].inp, call.inp_images[i].raw,
                     DefaultOptions, <<>>)

\* Lines 316-326: the flattened prediction and ground truth of pair i.
PairPr(i) == Flatten(PairPrediction(i).value)
PairGt(i) == Flatten(ArgMaxLastAxis(call.annotations[i]))

\* Lines 315-326: the loop takes the next pair and predicts its class map.
EvalPair ==
    /\ pc = "pair"
    /\ pair_i < NumPairs
    /\ LET r == PairPrediction(pair_i + 1)
       IN  /\ events' = events \o r.effects
           /\ IF r.outcome = "raise"
              THEN /\ ret' = [outcome |-> "raise", error |-> r.error, value |-> <<>>]
                   /\ pc' = "done"
              ELSE /\ pc' = "class"
                   /\ UNCHANGED ret
    /\ cl_i' = 0
    /\ UNCHANGED <<fs, call, tp, fp, fn, n_pixels, pair_i>>

\* Lines 328-332: one pass of the loop over the classes.
EvalClass ==
    /\ pc = "class"
    /\ cl_i < call.n_classes
    /\ LET pr == PairPr(pair_i + 1)
           gt == PairGt(pair_i + 1)
       IN  /\ tp' = Accumulate(tp, cl_i, tp_add(pr, gt, cl_i))
           /\ fp' = Accumulate(fp, cl_i, fp_add(pr, gt, cl_i))
           /\ fn' = Accumulate(fn, cl_i, fn_add(pr, gt, cl_i))
           /\ n_pixels' = Accumulate(n_pixels, cl_i, n_pixels_add(pr, gt, cl_i))
    /\ cl_i' = cl_i + 1
    /\ IF cl_i + 1 = call.n_classes
       THEN pc' = "pair" /\ pair_i' = pair_i + 1
       ELSE pc' = "class" /\ UNCHANGED pair_i
    /\ UNCHANGED <<fs, call, ret, events>>

RECURSIVE SeqSum(_)
SeqSum(s) == IF s = <<>> THEN 0 ELSE Head(s) + SeqSum(Tail(s))

\* Lines 334-343: the scores.  A quotient is kept as <<numerator,
\* denominator>>; the denominator of an IoU is without the 1e-12 added to
\* it.  mean_IU is the mean of class_wise_IU, frequency_weighted_IU the sum
\* of its products with n_pixels_norm.
EvalReturn ==
    /\ pc = "pair"
    /\ pair_i = NumPairs
    /\ ret' = [outcome |-> "value", error |-> "",
               value |-> [class_wise_IU |->
                              [c \in 1..call.n_classes |-> <<tp[c], tp[c] + fp[c] + fn[c]>>],
                          n_pixels_norm |->
                              [c \in 1..call.n_classes |-> <<n_pixels[c], SeqSum(n_pixels)>>]]]
    /\ pc' = "done"
    /\ UNCHANGED <<fs, call, events, tp, fp, fn, n_pixels, pair_i, cl_i>>

NextEval ==
    \/ EvaluateSegmentation
    \/ EvalPair
    \/ EvalClass
    \/ EvalReturn

SpecEval == InitEval /\ [][NextEval]_vars

(***************************************************************************)
(* Checkpoint resolution: what the claims call an entry with a pure        *)
(* integer suffix.                                                         *)
(***************************************************************************)
StripIndexSuffix(f) ==
    IF EndsWith(f, IndexSuffix) THEN SubSeq(f, 1, Len(f) - Len(IndexSuffix)) ELSE f

\* The part of entry e after "<path>."
SuffixOf(e) == SubSeq(e, Len(Path) + 2, Len(e))

HasIntegerSuffix(e) ==
    /\ StartsWith(e, Path \o <<".">>)
    /\ IsDigit(SuffixOf(e))

\* The entries matching path.*, with the ".index" suffix stripped.
Candidates == {StripIndexSuffix(f) : f \in GlobDotStar(fs, Path)}

NumericEntries == {e \in Candidates : HasIntegerSuffix(e)}

\* C2: when entries match path.*, the entry find_latest_checkpoint returns
\* is one of them (".index" stripped) whose suffix after "path." is a pure
\* non-negative integer, and that integer is the numeric maximum over all
\* such entries; an entry with a non-numeric suffix is never returned.
C2_LatestIsNumericMax ==
    (/\ pc = "done"
     /\ call.op = "find_latest_checkpoint"
     /\ GlobDotStar(fs, Path) # {}
     /\ ret.outcome = "value")
    => /\ ret.value \in NumericEntries
       /\ \A e \in NumericEntries : StrToInt(SuffixOf(e)) <= StrToInt(SuffixOf(ret.value))

\* C9: when no entry has a pure integer suffix, find_latest_checkpoint
\* returns none with fail_safe set and raises with fail_safe unset, and
\* never returns an entry; model_from_checkpoint_path then fails with
\* "Checkpoint weights aren't found" and constructs no model.
C9_NoMatchIsNoneOrRaise ==
    (pc = "done" /\ NumericEntries = {})
    => /\ call.op = "find_latest_checkpoint"
          => /\ call.fail_safe => ret.outcome = "none"
             /\ ~call.fail_safe => ret.outcome = "raise"
       /\ (call.op = "model_from_checkpoint_path" /\ ConfigPath(Path) \in fs)
          => /\ ret.outcome = "raise"
             /\ ret.error = "Checkpoint weights aren't found"
             /\ events = <<>>

(***************************************************************************)
(* Colourization and visualization.                                        *)
(***************************************************************************)
\* C6: every pixel of get_colored_segmentation_image whose class index c
\* lies in [0, n_classes) has exactly the palette colour colors[c] in its
\* three channels.
C6_PixelHasPaletteColor ==
    (pc = "done" /\ call.op = "get_colored_segmentation_image")
    => \A y \in 1..Height(call.seg_arr) : \A x \in 1..Width(call.seg_arr) :
          call.seg_arr[y][x] < call.n_classes
          => ret.value[y][x] = call.colors[call.seg_arr[y][x] + 1]

\* The 2x2 map [[0,1],[1,0]] with the palette [(10,20,30),(40,50,60)].
C6_Witness ==
    /\ pc = "done"
    /\ call.op = "get_colored_segmentation_image"
    /\ call.seg_arr = <<<<0, 1>>, <<1, 0>>>>
    /\ call.n_classes = 2
    /\ SubSeq(call.colors, 1, 2) = <<<<10, 20, 30>>, <<40, 50, 60>>>>
    /\ ret.value = <<<<(<<10, 20, 30>>), (<<40, 50, 60>>)>>,
                     <<(<<40, 50, 60>>), (<<10, 20, 30>>)>>>>

\* The call left the colourized map at the size of seg_arr.
NotResized ==
    /\ ~call.inp_img.some
    /\ ~BothGiven(call.prediction_width, call.prediction_height)

\* C7: visualize_segmentation called without n_classes colours with
\* n_classes = max(seg_arr): every pixel of the largest label stays (0,0,0)
\* and every pixel of a smaller label has its palette colour.
C7_DefaultNClassesIsMaxLabel ==
    (/\ pc = "done"
     /\ call.op = "visualize_segmentation"
     /\ ~call.n_classes.some
     /\ NotResized
     /\ ret.outcome = "value")
    => \A y \in 1..Height(call.seg_arr) : \A x \in 1..Width(call.seg_arr) :
          ret.value.px[y][x] =
              IF call.seg_arr[y][x] = ArrMax(call.seg_arr)
              THEN <<0, 0, 0>>
              ELSE call.colors[call.seg_arr[y][x] + 1]

\* A map holding only the classes 0 and 2: class 2 is left black.
C7_Witness ==
    /\ pc = "done"
    /\ call.op = "visualize_segmentation"
    /\ ~call.n_classes.some
    /\ NotResized
    /\ call.seg_arr = <<<<0, 2>>>>
    /\ ret.outcome = "value"
    /\ ret.value.px = <<<<call.colors[1], (<<0, 0, 0>>)>>>>

OverlayViolated == call.overlay_img /\ ~call.inp_img.some
LegendViolated == call.show_legends /\ ~call.class_names.some

\* C5: visualize_segmentation raises whenever overlay_img is set without a
\* source image and whenever show_legends is set without class_names; it
\* returns an image otherwise; with both violated the overlay assertion is
\* the one that fails.
C5_VisualizePreconditions ==
    (pc = "done" /\ call.op = "visualize_segmentation")
    => /\ OverlayViolated => (ret.outcome = "raise" /\ ret.error = OverlayAssert)
       /\ (LegendViolated /\ ~OverlayViolated)
          => (ret.outcome = "raise" /\ ret.error = LegendAssert)
       /\ (~OverlayViolated /\ ~LegendViolated)
          => (ret.outcome = "value" /\ ret.value.px # <<>>)

C5_Witness ==
    /\ pc = "done"
    /\ call.op = "visualize_segmentation"
    /\ OverlayViolated
    /\ LegendViolated
    /\ ret.outcome = "raise"
    /\ ret.error = OverlayAssert

(***************************************************************************)
(* Prediction.                                                             *)
(***************************************************************************)
PredictDone == pc = "done" /\ call.op = "predict_segmentation"

\* A model is at hand: given, or loadable from the checkpoint.
UsableModel ==
    \/ call.model.some
    \/ /\ call.checkpoints_path.some
       /\ ConfigPath(call.checkpoints_path.v) \in fs
       /\ WeightsFile \in fs

\* inp is an image array of rank 3 or the name of a file that decodes.
ValidInput ==
    \/ call.inp.kind = "ndarray" /\ call.inp.rank = 3
    \/ call.inp.kind = "str" /\ call.inp.readable

\* pr is the arg-max of the model output raw: at each output pixel the
\* first class with the largest score.
IsArgMaxMap(pr, raw, m) ==
    /\ Len(pr) = m.output_height
    /\ \A y \in 1..m.output_height :
         /\ Len(pr[y]) = m.output_width
         /\ \A x \in 1..m.output_width :
              LET base == (((y - 1) * m.output_width) + (x - 1)) * m.n_classes
              IN  /\ pr[y][x] \in 0..(m.n_classes - 1)
                  /\ \A k \in 0..(m.n_classes - 1) :
                       /\ raw[base + k + 1] <= raw[base + pr[y][x] + 1]
                       /\ k < pr[y][x] => raw[base + k + 1] < raw[base + pr[y][x] + 1]

ReturnsMap ==
    /\ ret.outcome = "value"
    /\ IsArgMaxMap(ret.value, call.raw, TheModel)

\* C1, as claimed: with a usable model and a valid input image,
\* predict_segmentation returns the arg-max class map for every combination
\* of the visualization and writing options.
C1_AlwaysReturnsMap ==
    (PredictDone /\ UsableModel /\ ValidInput) => ReturnsMap

\* A legend is drawn only with class names, and the four variants have four
\* names to go to.
LegendHasNames ==
    (call.o.all_visualisations \/ call.o.show_legends) => call.o.class_names.some
FourOutFnames ==
    (call.o.all_visualisations /\ call.o.out_fnames.some) => Len(call.o.out_fnames.v) >= 4

\* C1, amended: with a usable model and a valid input image,
\* predict_segmentation returns the arg-max class map for every combination
\* of the options in which class_names is given whenever a legend is drawn
\* (show_legends, or all_visualisations) and out_fnames, when given with
\* all_visualisations, has at least four names.
C1_ReturnsMapWhenLegendHasNames ==
    (PredictDone /\ UsableModel /\ ValidInput /\ LegendHasNames /\ FourOutFnames)
    => ReturnsMap

C1_Witness ==
    /\ PredictDone /\ UsableModel /\ ValidInput
    /\ call.o.all_visualisations
    /\ call.o.class_names.some
    /\ call.o.out_fnames.some
    /\ call.o.prediction_size[1].some
    /\ call.raw = <<1, 1, 0, 1>>
    /\ ret.outcome = "value"
    /\ ret.value = <<<<0, 1>>>>

\* inp is neither an array nor a string, or an array of a rank other than
\* 1, 3 and 4.
RejectedInput ==
    \/ call.inp.kind \notin {"ndarray", "str"}
    \/ call.inp.kind = "ndarray" /\ call.inp.rank \notin {1, 3, 4}

\* C3: with an input that is neither an array nor a path, or an image of a
\* rank other than 1, 3 and 4, predict_segmentation fails before anything
\* was done: no model was loaded from a checkpoint, model.predict was not
\* called and no file was written.
C3_InvalidInputFailsBeforeAnyWork ==
    (PredictDone /\ RejectedInput) => (ret.outcome = "raise" /\ events = <<>>)

\* The cv2.imwrite calls of the prediction, in order.
Writes == SelectSeq(events, LAMBDA ev : ev.e = "imwrite")

\* The variant visualize_segmentation makes of this call's prediction.
Variant(overlay_img, show_legends) ==
    visualize_segmentation(ReshapeArgMax(call.raw, TheModel.output_height,
                                         TheModel.output_width, TheModel.n_classes),
                           SomeV(call.inp.img), SomeV(TheModel.n_classes), call.o.colors,
                           call.o.class_names, overlay_img, show_legends,
                           call.o.prediction_size[1], call.o.prediction_size[2]).value

\* The four variants of all_visualisations, in the order of out_fnames.
FourVariants ==
    <<Variant(TRUE, TRUE), Variant(TRUE, FALSE), Variant(FALSE, TRUE), Variant(FALSE, FALSE)>>

\* What a call that returns has written.
ExpectedWrites ==
    IF call.o.all_visualisations
    THEN IF call.o.out_fnames.some
         THEN [k \in 1..4 |-> ImWrite(call.o.out_fnames.v[k], FourVariants[k])]
         ELSE <<>>
    ELSE IF call.o.out_fname.some
         THEN <<ImWrite(call.o.out_fname.v, Variant(call.o.overlay_img, call.o.show_legends))>>
         ELSE <<>>

WrittenNames == {Writes[k].name : k \in 1..Len(Writes)}
NamesOf(names) == {names[k] : k \in 1..Len(names)}

\* C4: with all_visualisations a call that returns has written overlay +
\* legend, overlay, legend, plain to out_fnames[0..3] in this order (when
\* out_fnames is given) and never writes out_fname; without it the call has
\* written the one variant overlay_img/show_legends select to out_fname
\* (when out_fname is given) and never writes a name of out_fnames.
C4_WritesInOrder ==
    PredictDone
    => /\ ret.outcome = "value" => Writes = ExpectedWrites
       /\ call.o.all_visualisations
          => /\ call.o.out_fname.v \notin WrittenNames
             /\ \A k \in 1..Len(Writes) :
                  /\ Writes[k].name = call.o.out_fnames.v[k]
                  /\ Writes[k].img = FourVariants[k]
       /\ ~call.o.all_visualisations
          => /\ WrittenNames \cap NamesOf(call.o.out_fnames.v) = {}
             /\ Len(Writes) <= 1

C4_Witness ==
    /\ PredictDone
    /\ call.o.all_visualisations
    /\ ret.outcome = "value"
    /\ Len(Writes) = 4
    /\ <<Writes[1].name, Writes[2].name, Writes[3].name, Writes[4].name>>
         = <<"f0", "f1", "f2", "f3">>
    /\ Writes[1].img.legend # NoLegend /\ Writes[3].img.legend # NoLegend
    /\ Writes[2].img.legend = NoLegend /\ Writes[4].img.legend = NoLegend
    /\ Writes[1].img.px # Writes[3].img.px
    /\ Writes[2].img.px # Writes[4].img.px

(***************************************************************************)
(* Evaluation.                                                             *)
(***************************************************************************)
InEvaluation == call.op = "evaluate_segmentation" /\ pc \in {"pair", "class"}

EvaluationReturned ==
    call.op = "evaluate_segmentation" /\ pc = "done" /\ ret.outcome = "value"

\* The pixels of all the pairs, as <<pair, pixel>>, that pass Test.
PixelsWhere(Test(_, _)) ==
    {<<i, j>> \in (1..NumPairs) \X (1..(TheModel.output_height * TheModel.output_width)) :
        Test(PairPr(i)[j], PairGt(i)[j])}

\* C8: after the whole stream, for every class c, tp[c], fp[c], fn[c] and
\* n_pixels[c] are the numbers of pixels over all the pairs with
\* (prediction = c, truth = c), (prediction = c, truth # c),
\* (prediction # c, truth = c) and (truth = c); so n_pixels[c] = tp[c] +
\* fn[c], and the totals are those of the set of pairs, in whatever order.
C8_TotalsArePixelCounts ==
    EvaluationReturned
    => \A c \in 0..(call.n_classes - 1) :
          /\ tp[c + 1] = Cardinality(PixelsWhere(LAMBDA p, g : p = c /\ g = c))
          /\ fp[c + 1] = Cardinality(PixelsWhere(LAMBDA p, g : p = c /\ g # c))
          /\ fn[c + 1] = Cardinality(PixelsWhere(LAMBDA p, g : p # c /\ g = c))
          /\ n_pixels[c + 1] = Cardinality(PixelsWhere(LAMBDA p, g : g = c))
          /\ n_pixels[c + 1] = tp[c + 1] + fn[c + 1]

\* Two pairs, with a hit, a false positive and a miss for class 0.
C8_Witness ==
    /\ EvaluationReturned
    /\ NumPairs = 2
    /\ tp[1] > 0 /\ fp[1] > 0 /\ fn[1] > 0
    /\ n_pixels[1] = tp[1] + fn[1]

Accumulators == <<tp, fp, fn, n_pixels>>

AccumulatorsNonNegative ==
    (call.op = "evaluate_segmentation" /\ ret.error = "")
    => \A a \in 1..4 :
          /\ Len(Accumulators[a]) = call.n_classes
          /\ \A c \in 1..call.n_classes : Accumulators[a][c] >= 0

AccumulatorsGrow ==
    InEvaluation
    => /\ Len(tp') = Len(tp) /\ Len(fp') = Len(fp)
       /\ Len(fn') = Len(fn) /\ Len(n_pixels') = Len(n_pixels)
       /\ \A c \in 1..call.n_classes :
            /\ tp'[c] >= tp[c] /\ fp'[c] >= fp[c]
            /\ fn'[c] >= fn[c] /\ n_pixels'[c] >= n_pixels[c]

\* C10: in every state of the loop of evaluate_segmentation the vectors tp,
\* fp, fn and n_pixels have n_classes entries, none negative, and no step
\* of the loop decreases an entry.
C10_AccumulatorsMonotone ==
    /\ []AccumulatorsNonNegative
    /\ [][AccumulatorsGrow]_vars

\* In the second pair, with counters the first pair raised.
C10_Witness ==
    /\ InEvaluation
    /\ pc = "class"
    /\ pair_i = 1
    /\ cl_i = 1
    /\ tp[1] > 0 /\ fp[2] > 0 /\ fn[1] > 0

====
